---- MODULE Spec2Model ----
(***************************************************************************)
(* Model of the coupon selector (src/app.py): the `urls` table of the      *)
(* store and the request handlers add_url, upload_file, use_amount,        *)
(* remove_url and get_total_amount that work on it, and the `families`     *)
(* table with the login that registers a family on its first use.          *)
(*                                                                         *)
(* Text is a sequence of one-character strings, so that strip(), split()   *)
(* and float() are computed as the program computes them.  Amounts are     *)
(* integers.  The created_at column and the response messages are left     *)
(* out: no handler reads them back.                                        *)
(***************************************************************************)
EXTENDS Integers, Sequences, FiniteSets, TLC

(***************************************************************************)
(* Bounds                                                                  *)
(***************************************************************************)
\* rows the urls table may hold
MaxRecords == 2
\* largest amount a request may carry (requests ask for -1 .. MaxAmount + 1)
MaxAmount == 3

\* the families that are logged in (families.id)
Families == {1, 2}
\* the two concurrent requests of the interleaved specification
Procs == {1, 2}

(***************************************************************************)
(* Python's str helpers                                                    *)
(***************************************************************************)
Whitespace == {" ", "\t", "\n", "\r"}
Digits == {"0", "1", "2", "3", "4", "5", "6", "7", "8", "9"}

RECURSIVE LStrip(_)
LStrip(s) ==
    IF s # <<>> /\ Head(s) \in Whitespace THEN LStrip(Tail(s)) ELSE s

RECURSIVE RStrip(_)
RStrip(s) ==
    IF s # <<>> /\ s[Len(s)] \in Whitespace
    THEN RStrip(SubSeq(s, 1, Len(s) - 1))
    ELSE s

\* str.strip()
Strip(s) == RStrip(LStrip(s))

\* str.replace(old, new) for one-character old and new
Replace(s, old, new) == [i \in DOMAIN s |-> IF s[i] = old THEN new ELSE s[i]]

\* str.split(sep) for a one-character sep: empty pieces are kept
RECURSIVE SplitOn(_, _, _, _)
SplitOn(s, sep, cur, acc) ==
    IF s = <<>> THEN Append(acc, cur)
    ELSE IF Head(s) = sep THEN SplitOn(Tail(s), sep, <<>>, Append(acc, cur))
    ELSE SplitOn(Tail(s), sep, Append(cur, Head(s)), acc)

\* str.split(): pieces between runs of whitespace, no empty piece
RECURSIVE SplitWs(_, _, _)
SplitWs(s, cur, acc) ==
    IF s = <<>> THEN (IF cur = <<>> THEN acc ELSE Append(acc, cur))
    ELSE IF Head(s) \in Whitespace
         THEN SplitWs(Tail(s), <<>>, IF cur = <<>> THEN acc ELSE Append(acc, cur))
         ELSE SplitWs(Tail(s), Append(cur, Head(s)), acc)

\* ' '.join(parts)
RECURSIVE Join(_)
Join(parts) ==
    IF parts = <<>> THEN <<>>
    ELSE IF Len(parts) = 1 THEN parts[1]
    ELSE parts[1] \o <<" ">> \o Join(Tail(parts))

DigitVal(c) == CHOOSE n \in 0..9 : <<"0", "1", "2", "3", "4", "5", "6", "7", "8", "9">>[n + 1] = c

RECURSIVE DecVal(_, _)
DecVal(s, acc) == IF s = <<>> THEN acc ELSE DecVal(Tail(s), 10 * acc + DigitVal(Head(s)))

AllDigits(s) == s # <<>> /\ \A i \in DOMAIN s : s[i] \in Digits

\* float(tok) succeeds (no ValueError), for tokens over digits, sign, letters a..c
FloatOk(tok) ==
    \/ AllDigits(tok)
    \/ Len(tok) >= 2 /\ tok[1] \in {"-", "+"} /\ AllDigits(Tail(tok))

\* float(tok) where FloatOk(tok)
FloatVal(tok) ==
    IF tok[1] = "-" THEN 0 - DecVal(Tail(tok), 0)
    ELSE IF tok[1] = "+" THEN DecVal(Tail(tok), 0)
    ELSE DecVal(tok, 0)

(***************************************************************************)
(* Request inputs                                                          *)
(***************************************************************************)
\* The requests of family 1 cover every branch of the handlers; family 2 is
\* the other tenant, whose requests are the plain ones.

\* (url, amount) of /api/add: a blank url, and a url with whitespace around
\* it with each amount
AddInputs(f) ==
    IF f = 1
    THEN {<<(<<" ">>), 1>>} \cup {<<(<<" ", "a">>), n>> : n \in (0 - 1)..MaxAmount}
    ELSE {<<(<<"a">>), 2>>}

\* data['amount'] of /api/use-amount
UseAmounts(f) == IF f = 1 THEN (0 - 1)..(MaxAmount + 1) ELSE {1, MaxAmount}

\* lines of an uploaded file
LineComma == <<"2", ",", "a">>
LineTab == <<"3", "\t", "a", " ", " ", "c">>
LineWords == <<"b", " ", "a">>
LineOneField == <<"3">>
LineNegative == <<"-", "1", " ", "a">>
LineBlank == <<" ">>
NL == <<"\n">>

\* file contents: lines joined by newlines
Contents ==
    {LineTab,
     LineWords,
     LineComma \o NL \o LineWords \o NL \o LineNegative \o NL,
     LineOneField \o NL \o LineBlank \o NL \o LineNegative}

\* request.files['file']: absent, without a file name, or a named file
Files(f) ==
    IF f = 1
    THEN {[present |-> FALSE, filename |-> <<>>, content |-> <<>>],
          [present |-> TRUE, filename |-> <<>>, content |-> <<>>]}
         \cup {[present |-> TRUE, filename |-> <<"f">>, content |-> c] : c \in Contents}
    ELSE {[present |-> TRUE, filename |-> <<"f">>, content |-> LineComma]}

\* request.json of /api/use-amount: an empty object, or one with an amount
Datas(f) ==
    (IF f = 1 THEN {[present |-> FALSE, amount |-> 0]} ELSE {})
    \cup {[present |-> TRUE, amount |-> n] : n \in UseAmounts(f)}

(***************************************************************************)
(* The urls table                                                          *)
(***************************************************************************)
VARIABLES
    urls,   \* the rows of table urls, in insertion order; row i has id i
    last,   \* the request served last and its response
    req,    \* per concurrent request: the rows it has selected and not yet committed on,
            \* or how far its login has come
    families \* the rows of table families, in insertion order

vars == <<urls, last, req, families>>

Rows(table) == {table[i] : i \in DOMAIN table}

\* INSERT INTO urls (url, amount, used, family_id) VALUES (url, amount, FALSE, family_id)
Insert(table, url, amount, family_id) ==
    Append(table, [id |-> Len(table) + 1, family_id |-> family_id, url |-> url,
                   amount |-> amount, used |-> FALSE])

\* the orders ORDER BY amount DESC may return the rows S in: rows of equal
\* amount come in an order SQL leaves open
OrderByAmountDesc(S) ==
    {s \in [1..Cardinality(S) -> S] :
        /\ \A i, j \in DOMAIN s : i # j => s[i] # s[j]
        /\ \A i, j \in DOMAIN s : i < j => s[i].amount >= s[j].amount}

\* WHERE family_id = %s AND used = FALSE   (get_urls)
WhereUnused(table, family_id) ==
    {r \in Rows(table) : r.family_id = family_id /\ r.used = FALSE}

\* mutant: the SELECT of use_amount without `amount > 0`
WhereUsable_any_amount(table, family_id) ==
    {r \in Rows(table) : r.family_id = family_id /\ r.used = FALSE}

\* mutant: the SELECT of use_amount without `family_id = %s`
WhereUsable_any_family(table, family_id) ==
    {r \in Rows(table) : r.used = FALSE /\ r.amount > 0}

\* mutant: the SELECT of use_amount without `used = FALSE`
WhereUsable_any_used(table, family_id) ==
    {r \in Rows(table) : r.family_id = family_id /\ r.amount > 0}

\* WHERE family_id = %s AND used = FALSE AND amount > 0   (use_amount)
WhereUsable(table, family_id) ==
    {r \in Rows(table) : r.family_id = family_id /\ r.used = FALSE /\ r.amount > 0}

RECURSIVE SumAmount(_)
SumAmount(S) ==
    IF S = {} THEN 0
    ELSE LET r == CHOOSE x \in S : TRUE IN r.amount + SumAmount(S \ {r})

\* mutant: the SUM over the rows use_amount selects (amount > 0)
get_total_amount_positive_only(table, family_id) ==
    SumAmount({r \in Rows(table) :
                  r.family_id = family_id /\ r.used = FALSE /\ r.amount > 0})

\* SELECT SUM(amount) ... WHERE family_id = %s AND used = FALSE, `or 0`
get_total_amount(table, family_id) == SumAmount(WhereUnused(table, family_id))

\* the results /api/urls may give
get_urls(table, family_id) == OrderByAmountDesc(WhereUnused(table, family_id))

(***************************************************************************)
(* /api/add                                                                *)
(***************************************************************************)
\* mutant: an amount of zero passes the check
AddRejected_zero_ok(url, amount) == url = <<>> \/ amount < 0

\* `if not url or amount <= 0`, url already stripped
AddRejected(url, amount) == url = <<>> \/ amount <= 0

\* the handler's effect on the table and its response
add_url_do(table, family_id, url_in, amount) ==
    LET url == Strip(url_in) IN
    IF AddRejected(url, amount)
    THEN [table |-> table, status |-> 400,
          body |-> [error |-> "Valid URL and amount required"]]
    ELSE [table |-> Insert(table, url, amount, family_id), status |-> 200,
          body |-> [message |-> "URL added successfully"]]

add_url(family_id, url_in, amount) ==
    LET out == add_url_do(urls, family_id, url_in, amount) IN
    /\ Len(out.table) <= MaxRecords
    /\ urls' = out.table
    /\ last' = [op |-> "add_url", family_id |-> family_id, url |-> url_in,
                amount |-> amount, status |-> out.status, body |-> out.body]
    /\ UNCHANGED <<req, families>>

(***************************************************************************)
(* /api/upload                                                             *)
(***************************************************************************)
\* parts = line.replace(',', ' ').replace('\t', ' ').split()
Parts(line) == SplitWs(Replace(Replace(line, ",", " "), "\t", " "), <<>>, <<>>)

\* mutant: a line of one field passes
LineAccepted_one_field(parts) == Len(parts) >= 1 /\ FloatOk(parts[1])

\* the line passes `len(parts) >= 2` and float(parts[0]) raises no ValueError
LineAccepted(parts) == Len(parts) >= 2 /\ FloatOk(parts[1])

\* the body of `for line in lines`, on the accumulator [table, added_count]
upload_line(line_in, acc, family_id) ==
    LET line == Strip(line_in)
        parts == Parts(line)
    IN  IF line = <<>> THEN acc
        ELSE IF LineAccepted(parts)
        THEN [table |-> Insert(acc.table, Join(Tail(parts)), FloatVal(parts[1]), family_id),
              added_count |-> acc.added_count + 1]
        ELSE acc

RECURSIVE upload_loop(_, _, _)
upload_loop(lines, acc, family_id) ==
    IF lines = <<>> THEN acc
    ELSE upload_loop(Tail(lines), upload_line(Head(lines), acc, family_id), family_id)

\* lines = content.strip().split('\n')
FileLines(content) == SplitOn(Strip(content), "\n", <<>>, <<>>)

upload_file_do(table, family_id, file) ==
    IF ~file.present
    THEN [table |-> table, status |-> 400, body |-> [error |-> "No file provided"]]
    ELSE IF file.filename = <<>>
    THEN [table |-> table, status |-> 400, body |-> [error |-> "No file selected"]]
    ELSE LET acc == upload_loop(FileLines(file.content),
                                [table |-> table, added_count |-> 0], family_id)
         IN  [table |-> acc.table, status |-> 200, body |-> [count |-> acc.added_count]]

upload_file(family_id, file) ==
    LET out == upload_file_do(urls, family_id, file) IN
    /\ Len(out.table) <= MaxRecords
    /\ urls' = out.table
    /\ last' = [op |-> "upload_file", family_id |-> family_id, file |-> file,
                status |-> out.status, body |-> out.body]
    /\ UNCHANGED <<req, families>>

(***************************************************************************)
(* /api/remove                                                             *)
(***************************************************************************)
\* mutant: the UPDATE without `AND family_id = %s`
UpdateUsed_any_family(table, url_id, family_id) ==
    [i \in DOMAIN table |->
        IF table[i].id = url_id THEN [table[i] EXCEPT !.used = TRUE] ELSE table[i]]

\* UPDATE urls SET used = True WHERE id = %s AND family_id = %s
UpdateUsed(table, url_id, family_id) ==
    [i \in DOMAIN table |->
        IF table[i].id = url_id /\ table[i].family_id = family_id
        THEN [table[i] EXCEPT !.used = TRUE]
        ELSE table[i]]

remove_url_do(table, family_id, url_id) ==
    IF url_id = 0
    THEN [table |-> table, status |-> 400, body |-> [error |-> "ID required"]]
    ELSE [table |-> UpdateUsed(table, url_id, family_id), status |-> 200,
          body |-> [message |-> "URL removed successfully"]]

remove_url(family_id, url_id) ==
    LET out == remove_url_do(urls, family_id, url_id) IN
    /\ urls' = out.table
    /\ last' = [op |-> "remove_url", family_id |-> family_id, id |-> url_id,
                status |-> out.status, body |-> out.body]
    /\ UNCHANGED <<req, families>>

(***************************************************************************)
(* /api/use-amount                                                         *)
(***************************************************************************)
\* mutant: zero passes the check
InvalidAmount_strict(amount_needed) == amount_needed < 0

\* `if amount_needed <= 0`
InvalidAmount(amount_needed) == amount_needed <= 0

\* mutant: the SELECT of use_amount ordered by amount ascending
SelectUsable_ascending(table, family_id) ==
    LET S == WhereUsable(table, family_id) IN
    {s \in [1..Cardinality(S) -> S] :
        /\ \A i, j \in DOMAIN s : i # j => s[i] # s[j]
        /\ \A i, j \in DOMAIN s : i < j => s[i].amount <= s[j].amount}

\* the rows the SELECT of use_amount may fetch
SelectUsable(table, family_id) == OrderByAmountDesc(WhereUsable(table, family_id))

\* mutant: a fully used row is not taken off the remaining need
greedy_step_keeps_need(url, acc) ==
    IF url.amount <= acc.remaining
    THEN [remaining |-> acc.remaining,
          used_urls |-> Append(acc.used_urls,
                               [id |-> url.id, url |-> url.url,
                                amount |-> url.amount, remaining |-> 0]),
          to_mark_used |-> Append(acc.to_mark_used, url.id),
          to_update |-> acc.to_update]
    ELSE [remaining |-> 0,
          used_urls |-> Append(acc.used_urls,
                               [id |-> url.id, url |-> url.url,
                                amount |-> acc.remaining,
                                remaining |-> url.amount - acc.remaining]),
          to_mark_used |-> acc.to_mark_used,
          to_update |-> Append(acc.to_update, <<url.amount - acc.remaining, url.id>>)]

\* the body of `for url in urls` past the break, on the accumulator
\* [remaining, used_urls, to_mark_used, to_update]
greedy_step(url, acc) ==
    IF url.amount <= acc.remaining
    THEN [remaining |-> acc.remaining - url.amount,
          used_urls |-> Append(acc.used_urls,
                               [id |-> url.id, url |-> url.url,
                                amount |-> url.amount, remaining |-> 0]),
          to_mark_used |-> Append(acc.to_mark_used, url.id),
          to_update |-> acc.to_update]
    ELSE [remaining |-> 0,
          used_urls |-> Append(acc.used_urls,
                               [id |-> url.id, url |-> url.url,
                                amount |-> acc.remaining,
                                remaining |-> url.amount - acc.remaining]),
          to_mark_used |-> acc.to_mark_used,
          to_update |-> Append(acc.to_update, <<url.amount - acc.remaining, url.id>>)]

\* mutant: the loop without `if remaining <= 0: break`
RECURSIVE greedy_loop_no_break(_, _)
greedy_loop_no_break(rows, acc) ==
    IF rows = <<>> THEN acc
    ELSE greedy_loop_no_break(Tail(rows), greedy_step(Head(rows), acc))

RECURSIVE greedy_loop(_, _)
greedy_loop(rows, acc) ==
    IF rows = <<>> \/ acc.remaining <= 0 THEN acc
    ELSE greedy_loop(Tail(rows), greedy_step(Head(rows), acc))

greedy(rows, amount_needed) ==
    greedy_loop(rows, [remaining |-> amount_needed, used_urls |-> <<>>,
                       to_mark_used |-> <<>>, to_update |-> <<>>])

\* mutant: the first UPDATE loop (mark used) runs, the second (amounts) does not
update_database_marks_only(table, to_mark_used, to_update) ==
    [i \in DOMAIN table |->
        IF \E k \in DOMAIN to_mark_used : to_mark_used[k] = table[i].id
        THEN [table[i] EXCEPT !.used = TRUE]
        ELSE table[i]]

\* "Update database": both UPDATE loops are commented out in the source, so
\* the table is committed as it was read
update_database(table, to_mark_used, to_update) == table

\* the JSON the handler returns after the loop
use_amount_response(acc) ==
    IF acc.remaining > 0
    THEN [used_urls |-> acc.used_urls, remaining_needed |-> acc.remaining]
    ELSE [used_urls |-> acc.used_urls]

\* mutant: nothing to use is answered as an error
use_amount_finish_404(table, rows, amount_needed) ==
    LET acc == greedy(rows, amount_needed) IN
    IF acc.used_urls = <<>>
    THEN [table |-> table, status |-> 404, body |-> [error |-> "No URLs available"]]
    ELSE [table |-> update_database(table, acc.to_mark_used, acc.to_update),
          status |-> 200, body |-> use_amount_response(acc)]

\* the handler from the fetched rows on
use_amount_finish(table, rows, amount_needed) ==
    LET acc == greedy(rows, amount_needed) IN
    [table |-> update_database(table, acc.to_mark_used, acc.to_update),
     status |-> 200, body |-> use_amount_response(acc)]

\* the handler up to the SELECT: the error response, if it returns one
use_amount_reject(data) ==
    IF ~data.present
    THEN [status |-> 400, body |-> [error |-> "No data provided"]]
    ELSE [status |-> 400, body |-> [error |-> "Amount must be greater than 0"]]

Rejected(data) == ~data.present \/ InvalidAmount(data.amount)

\* one request served without another in between
use_amount(family_id, data) ==
    /\ \E rows \in SelectUsable(urls, family_id) :
          LET out == IF Rejected(data)
                     THEN [table |-> urls] @@ use_amount_reject(data)
                     ELSE use_amount_finish(urls, rows, data.amount)
          IN  /\ urls' = out.table
              /\ last' = [op |-> "use_amount", family_id |-> family_id, data |-> data,
                          status |-> out.status, body |-> out.body]
    /\ UNCHANGED <<req, families>>

\* the `remaining` the response stands for: no remaining_needed key means 0
Shortfall(body) ==
    IF "remaining_needed" \in DOMAIN body THEN body.remaining_needed ELSE 0

(***************************************************************************)
(* /api/total                                                              *)
(***************************************************************************)
api_total(family_id) ==
    /\ last' = [op |-> "get_total_amount", family_id |-> family_id, status |-> 200,
                body |-> [total_amount |-> get_total_amount(urls, family_id)]]
    /\ UNCHANGED <<urls, req, families>>

(***************************************************************************)
(* The requests served one at a time                                       *)
(***************************************************************************)
NoReq == [pc |-> "idle"]

\* the rows of the families that are logged in
Registered ==
    <<[id |-> 1, family_code |-> <<"a">>], [id |-> 2, family_code |-> <<"b", "_">>]>>

Init ==
    /\ urls = <<>>
    /\ last = [op |-> "none", status |-> 0]
    /\ req = [p \in Procs |-> NoReq]
    /\ families = Registered

Next ==
    \/ \E f \in Families : \E in \in AddInputs(f) : add_url(f, in[1], in[2])
    \/ \E f \in Families : \E file \in Files(f) : upload_file(f, file)
    \/ \E f \in Families : \E data \in Datas(f) : use_amount(f, data)
    \/ \E f \in Families, id \in 0..(MaxRecords + 1) : remove_url(f, id)
    \/ \E f \in Families : api_total(f)

Spec == Init /\ [][Next]_vars

(***************************************************************************)
(* Two /api/use-amount requests in flight at once: each runs its SELECT,   *)
(* then the loop and the commit, on a connection of its own; nothing in    *)
(* the handler keeps another request from running in between.              *)
(***************************************************************************)
InFlight(p) == req[p].pc = "selected"

\* the handler up to and with the SELECT (or its error response)
use_amount_begin(p, family_id, data) ==
    /\ ~InFlight(p)
    /\ IF Rejected(data)
       THEN /\ req' = [req EXCEPT ![p] = NoReq]
            /\ last' = [op |-> "use_amount", family_id |-> family_id, data |-> data]
                       @@ use_amount_reject(data)
       ELSE /\ \E rows \in SelectUsable(urls, family_id) :
                  req' = [q \in Procs |->
                            IF q = p
                            THEN [pc |-> "selected", family_id |-> family_id,
                                  data |-> data, rows |-> rows,
                                  overlapped |-> \E o \in Procs \ {p} : InFlight(o)]
                            ELSE IF InFlight(q)
                            THEN [req[q] EXCEPT !.overlapped = TRUE]
                            ELSE req[q]]
            /\ UNCHANGED last
    /\ UNCHANGED <<urls, families>>

\* the handler from the loop to the response
use_amount_end(p) ==
    /\ InFlight(p)
    /\ LET out == use_amount_finish(urls, req[p].rows, req[p].data.amount) IN
       /\ urls' = out.table
       /\ last' = [op |-> "use_amount", family_id |-> req[p].family_id,
                   data |-> req[p].data, status |-> out.status, body |-> out.body]
       /\ req' = [req EXCEPT ![p] = [pc |-> "done", family_id |-> req[p].family_id,
                                     data |-> req[p].data, rows |-> req[p].rows,
                                     overlapped |-> req[p].overlapped,
                                     status |-> out.status, body |-> out.body]]
    /\ UNCHANGED families

\* the handler when the database raises before conn.commit(): the except
\* clause answers 500 and nothing is committed
use_amount_abort(p) ==
    /\ InFlight(p)
    /\ req' = [req EXCEPT ![p] = NoReq]
    /\ last' = [op |-> "use_amount", family_id |-> req[p].family_id,
                data |-> req[p].data, status |-> 500,
                body |-> [error |-> "Server error"]]
    /\ UNCHANGED <<urls, families>>

\* The interleaved requests are those of family 1, on rows of amount 1 and 2.
ConcAdds == {<<(<<"a">>), 1>>, <<(<<"a">>), 2>>}
ConcDatas == {[present |-> TRUE, amount |-> n] : n \in 0..3}

ConcNext ==
    \/ \E in \in ConcAdds : add_url(1, in[1], in[2])
    \/ \E p \in Procs, data \in ConcDatas : use_amount_begin(p, 1, data)
    \/ \E p \in Procs : use_amount_end(p)
    \/ \E p \in Procs : use_amount_abort(p)

SpecConc == Init /\ [][ConcNext]_vars

(***************************************************************************)
(* /login: two clients post the login form at once.  The handler runs      *)
(* family_exists, then register_family when no row was found, then sets    *)
(* the session; each statement commits on a connection of its own.  The    *)
(* ids a failed INSERT skips in the SERIAL column are left out: a row's id *)
(* is its place in the table.                                              *)
(***************************************************************************)
\* sanitized[:50]
MaxCodeLen == 50

\* the characters of the forms for which c.isalnum() holds
Alnum == Digits \cup {"a", "b"}

sanitize_family_code(family_code) ==
    LET Keep(c) == c \in Alnum \/ c \in {"-", "_"}
        sanitized == SelectSeq(family_code, Keep)
    IN  SubSeq(sanitized, 1, IF Len(sanitized) < MaxCodeLen THEN Len(sanitized) ELSE MaxCodeLen)

\* SELECT id FROM families WHERE family_code = %s: the id, or 0 for None
family_exists(table, family_code) ==
    LET code == sanitize_family_code(family_code)
        found == {i \in DOMAIN table : table[i].family_code = code}
    IN  IF found = {} THEN 0 ELSE table[CHOOSE i \in found : TRUE].id

\* mutant: the INSERT on a family_code column that is not UNIQUE
register_family_no_unique(table, family_code) ==
    [table |-> Append(table, [id |-> Len(table) + 1,
                              family_code |-> sanitize_family_code(family_code)]),
     returned |-> TRUE]

\* INSERT INTO families (family_code): family_code is UNIQUE, and the
\* UniqueViolation is caught and rolled back
register_family(table, family_code) ==
    LET code == sanitize_family_code(family_code) IN
    IF \E i \in DOMAIN table : table[i].family_code = code
    THEN [table |-> table, returned |-> FALSE]
    ELSE [table |-> Append(table, [id |-> Len(table) + 1, family_code |-> code]),
          returned |-> TRUE]

\* what the login form may carry
LoginForms ==
    {<<>>, <<"/">>, <<"a">>, <<" ", "a", " ">>, <<"a", "/">>, <<"b", "_">>}

LoginInFlight(p) == req[p].pc \in {"register", "session"}

\* session.get('family_code'): the empty text stands for no session
Session(p) == IF "session" \in DOMAIN req[p] THEN req[p].session ELSE <<>>

\* the handler up to and with family_exists (or its error page)
login_begin(p, form) ==
    /\ ~LoginInFlight(p)
    /\ LET family_code == Strip(form)
           sanitized == sanitize_family_code(family_code)
       IN  req' = [req EXCEPT ![p] =
              IF family_code = <<>>
              THEN [pc |-> "login_error", form |-> form, session |-> Session(p),
                    error |-> "Please enter a family code"]
              ELSE IF sanitized = <<>>
              THEN [pc |-> "login_error", form |-> form, session |-> Session(p),
                    error |-> "Invalid family code"]
              ELSE [pc |-> IF family_exists(families, sanitized) = 0
                           THEN "register" ELSE "session",
                    form |-> form, session |-> Session(p),
                    family_code |-> sanitized,
                    exists |-> family_exists(families, sanitized),
                    registered |-> FALSE]]
    /\ UNCHANGED <<urls, last, families>>

\* register_family(family_code); what it returns is dropped by login
login_register(p) ==
    /\ req[p].pc = "register"
    /\ LET out == register_family(families, req[p].family_code) IN
       /\ families' = out.table
       /\ req' = [req EXCEPT ![p].pc = "session", ![p].registered = out.returned]
    /\ UNCHANGED <<urls, last>>

\* session['family_code'] = family_code and the redirect
login_end(p) ==
    /\ req[p].pc = "session"
    /\ req' = [req EXCEPT ![p].pc = "logged_in", ![p].session = req[p].family_code]
    /\ UNCHANGED <<urls, last, families>>

\* init_families_db() has run and nobody has logged in
LoginInit ==
    /\ urls = <<>>
    /\ last = [op |-> "none", status |-> 0]
    /\ req = [p \in Procs |-> NoReq]
    /\ families = <<>>

LoginNext ==
    \/ \E p \in Procs, form \in LoginForms : login_begin(p, form)
    \/ \E p \in Procs : login_register(p)
    \/ \E p \in Procs : login_end(p)

SpecLogin == LoginInit /\ [][LoginNext]_vars

(***************************************************************************)
(* Properties of use_amount                                                *)
(***************************************************************************)
\* the last request was /api/use-amount and it was answered 200
Allocated == last.op = "use_amount" /\ last.status = 200

Entries(used_urls) == {used_urls[i] : i \in DOMAIN used_urls}

RECURSIVE SumConsumed(_)
SumConsumed(used_urls) ==
    IF used_urls = <<>> THEN 0
    ELSE Head(used_urls).amount + SumConsumed(Tail(used_urls))

Max(a, b) == IF a >= b THEN a ELSE b

\* C1: after a successful Allocate, every row the response reports as fully
\* consumed (remaining 0) has used = TRUE in the table.
C1_FullyConsumedIsUsed ==
    Allocated =>
        \A e \in Entries(last.body.used_urls) : e.remaining = 0 => urls[e.id].used

\* C2: after a successful Allocate, a partially consumed row is still unused
\* and holds the amount the response reports as its remaining.
C2_PartialRowShrinks ==
    Allocated =>
        \A e \in Entries(last.body.used_urls) :
            e.remaining > 0 =>
                /\ urls[e.id].used = FALSE
                /\ urls[e.id].amount = e.remaining

\* C3: for every Allocate(t, N) with N > 0 the consumed amounts plus the
\* shortfall make N; the shortfall is max(0, N - the sum of t's unused
\* positive-amount rows before the call), and when it is positive each of
\* those rows is reported fully consumed.
C3_ConsumedPlusShortfall ==
    [][(last'.op = "use_amount" /\ last'.status = 200) =>
        LET N == last'.data.amount
            body == last'.body
            usable == WhereUsable(urls, last'.family_id)
        IN  /\ SumConsumed(body.used_urls) + Shortfall(body) = N
            /\ Shortfall(body) = Max(0, N - SumAmount(usable))
            /\ Shortfall(body) > 0 =>
                  \A r \in usable : \E e \in Entries(body.used_urls) :
                      e.id = r.id /\ e.amount = r.amount /\ e.remaining = 0
      ]_vars

\* C3 witness: an Allocate that used up a row and still reports a shortfall
C3_Witness ==
    /\ Allocated
    /\ last.body.used_urls # <<>>
    /\ Shortfall(last.body) > 0

\* C4: Allocate(t, N) with N <= 0 is answered with the InvalidAmount error
\* and no row of any family changes.
C4_NonPositiveRejected ==
    [][(last'.op = "use_amount" /\ last'.data.present /\ last'.data.amount <= 0) =>
        /\ last'.status = 400
        /\ last'.body = [error |-> "Amount must be greater than 0"]
        /\ urls' = urls
      ]_vars

\* C4 witness: Allocate(t, 0) rejected while t has a row that could be used
C4_Witness ==
    /\ last.op = "use_amount"
    /\ last.data.present
    /\ last.data.amount = 0
    /\ last.status = 400
    /\ WhereUsable(urls, last.family_id) # {}

\* C6: a row that is used stays used with its amount, is in no consumed list
\* of an Allocate served afterwards and in no ListUnused result.
C6_UsedIsFinal ==
    [][\A i \in DOMAIN urls :
        urls[i].used =>
            /\ i \in DOMAIN urls'
            /\ urls'[i].used
            /\ urls'[i].amount = urls[i].amount
            /\ (last'.op = "use_amount" /\ last'.status = 200) =>
                  \A e \in Entries(last'.body.used_urls) : e.id # urls[i].id
            /\ \A f \in Families : \A listed \in get_urls(urls', f) :
                  \A k \in DOMAIN listed : listed[k].id # urls[i].id
      ]_vars

\* C6 witness: an Allocate that consumed a row of a family that also has a
\* used row of positive amount
C6_Witness ==
    /\ Allocated
    /\ last.body.used_urls # <<>>
    /\ \E i \in DOMAIN urls :
          urls[i].used /\ urls[i].family_id = last.family_id /\ urls[i].amount > 0

\* C7: every stored row has amount >= 0.
C7_AmountNonNegative == \A i \in DOMAIN urls : urls[i].amount >= 0

\* C8: Allocate(t, N) with N > 0 is answered 200; when t has no unused row
\* the consumed list is empty, the shortfall is N and no row changes.
C8_PositiveAlwaysSucceeds ==
    [][(last'.op = "use_amount" /\ last'.data.present /\ last'.data.amount > 0) =>
        /\ last'.status = 200
        /\ WhereUnused(urls, last'.family_id) = {} =>
              /\ last'.body.used_urls = <<>>
              /\ Shortfall(last'.body) = last'.data.amount
              /\ urls' = urls
      ]_vars

\* C8 witness: an Allocate with N > 0 for a family whose rows are all used
C8_Witness ==
    /\ Allocated
    /\ last.body.used_urls = <<>>
    /\ Shortfall(last.body) = last.data.amount
    /\ WhereUnused(urls, last.family_id) = {}
    /\ \E i \in DOMAIN urls : urls[i].family_id = last.family_id

(***************************************************************************)
(* Properties of add_url and upload_file                                   *)
(***************************************************************************)
\* the row an accepted AddRecord(t, url, amount) appends, given the url stored
AddedRow(table, family_id, url, amount) ==
    [id |-> Len(table) + 1, family_id |-> family_id, url |-> url,
     amount |-> amount, used |-> FALSE]

\* C9 as stated: AddRecord fails with the validation error when amount <= 0
\* or the trimmed url is empty, leaving the table unchanged; otherwise it
\* appends one unused row of t with the url as given and the amount.
C9_AddStoresGivenUrl ==
    [][last'.op = "add_url" =>
        IF last'.amount <= 0 \/ Strip(last'.url) = <<>>
        THEN /\ last'.status = 400
             /\ last'.body = [error |-> "Valid URL and amount required"]
             /\ urls' = urls
        ELSE /\ last'.status = 200
             /\ urls' = Append(urls, AddedRow(urls, last'.family_id, last'.url, last'.amount))
      ]_vars

\* C9 amended: as above, but the row holds the url with the whitespace
\* around it trimmed off.
C9_AddStoresTrimmedUrl ==
    [][last'.op = "add_url" =>
        IF last'.amount <= 0 \/ Strip(last'.url) = <<>>
        THEN /\ last'.status = 400
             /\ last'.body = [error |-> "Valid URL and amount required"]
             /\ urls' = urls
        ELSE /\ last'.status = 200
             /\ urls' = Append(urls, AddedRow(urls, last'.family_id, Strip(last'.url),
                                              last'.amount))
      ]_vars

\* C9 witness: a rejected AddRecord with amount 0 after an accepted one
C9_Witness ==
    /\ last.op = "add_url"
    /\ last.status = 400
    /\ last.amount = 0
    /\ Strip(last.url) # <<>>
    /\ \E i \in DOMAIN urls : urls[i].family_id = last.family_id /\ urls[i].url = <<"a">>

\* the characters that separate the fields of an uploaded line
Separators == Whitespace \cup {","}

\* a field of the line starts at position i
IsFieldStart(line, i) ==
    line[i] \notin Separators /\ (i = 1 \/ line[i - 1] \in Separators)

FieldStarts(line) == {i \in DOMAIN line : IsFieldStart(line, i)}

\* the first field: from the first field start up to the next separator
FirstField(line) ==
    LET a == CHOOSE i \in FieldStarts(line) : \A j \in FieldStarts(line) : i <= j
        b == CHOOSE j \in a..Len(line) :
                /\ \A k \in a..j : line[k] \notin Separators
                /\ (j = Len(line) \/ line[j + 1] \in Separators)
    IN  SubSeq(line, a, b)

\* an optionally signed run of digits
IsNumber(tok) ==
    LET d == IF tok[1] \in {"-", "+"} THEN Tail(tok) ELSE tok
    IN  d # <<>> /\ \A i \in DOMAIN d : d[i] \in Digits

\* the line has at least two fields and a numeric first field
Qualifies(line) == Cardinality(FieldStarts(line)) >= 2 /\ IsNumber(FirstField(line))

\* the amounts of the qualifying lines, in the order of the lines
RECURSIVE QualifyingAmounts(_)
QualifyingAmounts(lines) ==
    IF lines = <<>> THEN <<>>
    ELSE (IF Qualifies(Head(lines)) THEN <<FloatVal(FirstField(Head(lines)))>> ELSE <<>>)
         \o QualifyingAmounts(Tail(lines))

TextLines(content) == SplitOn(content, "\n", <<>>, <<>>)

\* C10: BulkAdd(t, text) appends one unused row of t for each line that has
\* at least two fields and a numeric first field, in the order of the
\* lines, appends nothing for any other line, and returns the number of
\* rows it appended.
C10_BulkAddCountsQualifyingLines ==
    [][(last'.op = "upload_file" /\ last'.status = 200) =>
        LET want == QualifyingAmounts(TextLines(last'.file.content)) IN
        /\ last'.body.count = Len(want)
        /\ Len(urls') = Len(urls) + Len(want)
        /\ SubSeq(urls', 1, Len(urls)) = urls
        /\ \A k \in 1..Len(want) :
              LET row == urls'[Len(urls) + k] IN
              /\ row.family_id = last'.family_id
              /\ row.used = FALSE
              /\ row.amount = want[k]
      ]_vars

\* C10 witness: an upload of three lines that added two rows and skipped one
C10_Witness ==
    /\ last.op = "upload_file"
    /\ last.status = 200
    /\ last.body.count = 2
    /\ \E l \in Entries(TextLines(last.file.content)) : l # <<>> /\ ~Qualifies(l)

(***************************************************************************)
(* Properties of concurrent use_amount requests                            *)
(***************************************************************************)
\* the ids a response reports as fully consumed
FullyConsumed(body) == {e.id : e \in {x \in Entries(body.used_urls) : x.remaining = 0}}

\* p and q have both been answered 200 for one family after running at the
\* same time on the same fetched rows
RanTogether(p, q) ==
    /\ p # q
    /\ req[p].pc = "done" /\ req[q].pc = "done"
    /\ req[p].overlapped /\ req[q].overlapped
    /\ req[p].family_id = req[q].family_id
    /\ req[p].rows = req[q].rows

\* C5: two Allocate calls of one family that interleave never consume from
\* the same row state: together they report no more consumed than the
\* family's balance before them, and no row fully consumed by both.
C5_NoDoubleAllocation ==
    \A p, q \in Procs :
        RanTogether(p, q) =>
            /\ SumConsumed(req[p].body.used_urls) + SumConsumed(req[q].body.used_urls)
                  <= SumAmount(Entries(req[p].rows))
            /\ FullyConsumed(req[p].body) \cap FullyConsumed(req[q].body) = {}

(***************************************************************************)
(* Properties of remove_url                                                *)
(***************************************************************************)
\* the table with the row of this id marked used, every other row as it was
MarkedUsed(table, url_id) ==
    [i \in DOMAIN table |->
        IF table[i].id = url_id
        THEN [id |-> table[i].id, family_id |-> table[i].family_id, url |-> table[i].url,
              amount |-> table[i].amount, used |-> TRUE]
        ELSE table[i]]

\* the id names a row of family t
OwnedBy(table, url_id, t) ==
    \E i \in DOMAIN table : table[i].id = url_id /\ table[i].family_id = t

\* C11 as stated: RemoveRecord(t, id) succeeds for every id; it marks the
\* row of that id used when the row is t's, and leaves the table as it was
\* when the id is another family's or no row's. No amount and no other
\* row's used flag changes.
C11_RemoveAnyIdSucceeds ==
    [][last'.op = "remove_url" =>
        /\ last'.status = 200
        /\ urls' = IF OwnedBy(urls, last'.id, last'.family_id)
                   THEN MarkedUsed(urls, last'.id)
                   ELSE urls
      ]_vars

\* C11 amended: as above for an id other than 0; RemoveRecord(t, 0) is
\* answered with the error "ID required" and changes nothing.
C11_RemoveScopedToFamily ==
    [][last'.op = "remove_url" =>
        IF last'.id = 0
        THEN /\ last'.status = 400
             /\ last'.body = [error |-> "ID required"]
             /\ urls' = urls
        ELSE /\ last'.status = 200
             /\ urls' = IF OwnedBy(urls, last'.id, last'.family_id)
                        THEN MarkedUsed(urls, last'.id)
                        ELSE urls
      ]_vars

\* C11 witness: a RemoveRecord with the id of another family's unused row
\* was answered 200 and the row is still unused
C11_Witness ==
    /\ last.op = "remove_url"
    /\ last.status = 200
    /\ \E i \in DOMAIN urls :
          /\ urls[i].id = last.id
          /\ urls[i].family_id # last.family_id
          /\ ~urls[i].used

(***************************************************************************)
(* Properties of get_total_amount                                          *)
(***************************************************************************)
\* the amounts of t's unused rows added up row by row, from the last row back
RECURSIVE UnusedSum(_, _)
UnusedSum(table, t) ==
    IF table = <<>> THEN 0
    ELSE LET r == table[Len(table)]
             rest == UnusedSum(SubSeq(table, 1, Len(table) - 1), t)
         IN  IF r.family_id = t /\ ~r.used THEN rest + r.amount ELSE rest

\* C12: TotalUnused(t) is the sum of amount over t's rows with used=false,
\* and 0 when t has no unused row.
C12_TotalIsSumOfUnused ==
    last.op = "get_total_amount" =>
        /\ last.body.total_amount = UnusedSum(urls, last.family_id)
        /\ (\A i \in DOMAIN urls : urls[i].family_id = last.family_id => urls[i].used)
              => last.body.total_amount = 0

\* C12 witness: a total asked by a family that has a used row of positive
\* amount and an unused row of negative amount
C12_Witness ==
    /\ last.op = "get_total_amount"
    /\ \E i, j \in DOMAIN urls :
          /\ urls[i].family_id = last.family_id /\ urls[i].used /\ urls[i].amount > 0
          /\ urls[j].family_id = last.family_id /\ ~urls[j].used /\ urls[j].amount < 0
          /\ last.body.total_amount = urls[j].amount

(***************************************************************************)
(* Properties of the order use_amount takes the rows in                    *)
(***************************************************************************)
\* C13: Allocate is deterministic under ties: from one table, every run of
\* Allocate(t, N) returns the same consumed list and leaves the same table.
C13_TieBreakDeterministic ==
    [][(last'.op = "use_amount" /\ last'.status = 200) =>
        \A rows \in SelectUsable(urls, last'.family_id) :
            LET other == use_amount_finish(urls, rows, last'.data.amount) IN
            /\ other.body = last'.body
            /\ other.table = urls'
      ]_vars

\* the row of the table with this id
RowOf(table, url_id) == CHOOSE r \in Rows(table) : r.id = url_id

\* C14: in a consumed list at most one entry is a partial consumption
\* (remaining > 0), and it is the last entry; every earlier entry has
\* remaining 0 and the full amount of its row.
C14_OnePartialAndLast ==
    [][(last'.op = "use_amount" /\ last'.status = 200) =>
        LET used == last'.body.used_urls IN
        /\ Cardinality({k \in DOMAIN used : used[k].remaining > 0}) <= 1
        /\ \A k \in DOMAIN used :
              /\ used[k].remaining > 0 => k = Len(used)
              /\ k < Len(used) =>
                    /\ used[k].remaining = 0
                    /\ used[k].amount = RowOf(urls, used[k].id).amount
      ]_vars

\* C14 witness: a consumed list of a full consumption followed by a partial one
C14_Witness ==
    /\ Allocated
    /\ Len(last.body.used_urls) = 2
    /\ last.body.used_urls[1].remaining = 0
    /\ last.body.used_urls[2].remaining > 0

\* C15: Allocate takes the family's unused rows in descending amount order
\* and stops once the need is met: the consumed rows are a prefix of a
\* descending-sorted list of the unused rows, each entry was taken while
\* need was left, and a row is touched only if every strictly larger unused
\* row is fully consumed in the same list.
C15_LargestFirstPrefix ==
    [][(last'.op = "use_amount" /\ last'.status = 200) =>
        LET used == last'.body.used_urls
            t == last'.family_id
        IN
        /\ \E listed \in get_urls(urls, t) :
              /\ Len(used) <= Len(listed)
              /\ \A k \in DOMAIN used : listed[k].id = used[k].id
        /\ \A k \in DOMAIN used :
              /\ SumConsumed(SubSeq(used, 1, k - 1)) < last'.data.amount
              /\ \A r \in WhereUnused(urls, t) :
                    r.amount > RowOf(urls, used[k].id).amount =>
                        \E j \in DOMAIN used : used[j].id = r.id /\ used[j].remaining = 0
      ]_vars

\* C15 witness: an Allocate that consumed from the larger rows and left a
\* strictly smaller unused row of positive amount untouched
C15_Witness ==
    /\ Allocated
    /\ last.body.used_urls # <<>>
    /\ \E r \in WhereUsable(urls, last.family_id) :
          /\ \A e \in Entries(last.body.used_urls) :
                e.id # r.id /\ RowOf(urls, e.id).amount > r.amount

(***************************************************************************)
(* Properties of the commit of use_amount                                  *)
(***************************************************************************)
\* the table shows the scheduled update: the row marked used, or the row
\* holding its new amount
MarkShown(table, url_id) == RowOf(table, url_id).used
AmountShown(table, upd) == RowOf(table, upd[2]).amount = upd[1]

\* every scheduled update of the accumulator shows in the table
AllShown(table, acc) ==
    /\ \A k \in DOMAIN acc.to_mark_used : MarkShown(table, acc.to_mark_used[k])
    /\ \A k \in DOMAIN acc.to_update : AmountShown(table, acc.to_update[k])

\* the rows the accumulator schedules an update for are as they were
NoneChanged(before, after, acc) ==
    /\ \A k \in DOMAIN acc.to_mark_used :
          RowOf(after, acc.to_mark_used[k]) = RowOf(before, acc.to_mark_used[k])
    /\ \A k \in DOMAIN acc.to_update :
          RowOf(after, acc.to_update[k][2]) = RowOf(before, acc.to_update[k][2])

\* C16: the updates one Allocate schedules are applied all or not at all:
\* the step that ends the call, the only one whose writes another request
\* can see, leaves every scheduled update showing in the table or every
\* scheduled row as it was, and leaves the table as it was when the
\* database failed.
C16_AllOrNothing ==
    [][\A p \in Procs :
        (InFlight(p) /\ req'[p].pc # "selected") =>
            LET acc == greedy(req[p].rows, req[p].data.amount) IN
            /\ AllShown(urls', acc) \/ NoneChanged(urls, urls', acc)
            /\ last'.status = 500 => urls' = urls
      ]_vars

\* C16 witness: an Allocate that scheduled a mark and an amount update was
\* answered 200 after running at the same time as another
C16_Witness ==
    \E p \in Procs :
        /\ req[p].pc = "done"
        /\ req[p].overlapped
        /\ Len(req[p].body.used_urls) = 2
        /\ req[p].body.used_urls[1].remaining = 0
        /\ req[p].body.used_urls[2].remaining > 0

(***************************************************************************)
(* Properties of the separation of the families                            *)
(***************************************************************************)
\* the rows of family t, in table order
OwnRows(table, t) ==
    LET Own(r) == r.family_id = t IN SelectSeq(table, Own)

\* the responses Allocate(t, N) may give on the table
AllocateBodies(table, t, N) ==
    {use_amount_finish(table, rows, N).body : rows \in SelectUsable(table, t)}

\* what family g can see of the table: its rows, ListUnused, TotalUnused
\* and the responses of Allocate
ViewOf(table, g) ==
    [rows |-> OwnRows(table, g),
     unused |-> get_urls(table, g),
     total |-> get_total_amount(table, g),
     allocate |-> [N \in 1..(MaxAmount + 1) |-> AllocateBodies(table, g, N)]]

\* C17: an operation invoked for family t changes no row of another family
\* and nothing another family gets from ListUnused, TotalUnused or
\* Allocate; and it reads only t's rows: its response is one the same
\* request gets on the table of t's rows alone.
C17_FamiliesAreSeparate ==
    [][last'.op # "none" =>
        LET t == last'.family_id IN
        /\ \A g \in Families \ {t} : ViewOf(urls', g) = ViewOf(urls, g)
        /\ (last'.op = "use_amount" /\ last'.status = 200) =>
              last'.body \in AllocateBodies(OwnRows(urls, t), t, last'.data.amount)
        /\ last'.op = "get_total_amount" =>
              last'.body.total_amount = get_total_amount(OwnRows(urls, t), t)
      ]_vars

\* C17 witness: an Allocate that consumed a row of its family while another
\* family holds an unused row of positive amount
C17_Witness ==
    /\ Allocated
    /\ last.body.used_urls # <<>>
    /\ \E r \in Rows(urls) : r.family_id # last.family_id /\ ~r.used /\ r.amount > 0

(***************************************************************************)
(* Properties of the login                                                 *)
(***************************************************************************)
RowsWithCode(table, code) == {i \in DOMAIN table : table[i].family_code = code}

\* C18: however the steps of concurrent logins interleave, no family code
\* has two rows in families; a finished login holds a session bound to its
\* code, which has exactly one row; and the only logins turned away are
\* those whose form leaves no code.
C18_LoginGetOrCreate ==
    /\ \A i, j \in DOMAIN families :
          families[i].family_code = families[j].family_code => i = j
    /\ \A p \in Procs :
          /\ req[p].pc = "logged_in" =>
                /\ req[p].session = sanitize_family_code(Strip(req[p].form))
                /\ Cardinality(RowsWithCode(families, req[p].session)) = 1
          /\ req[p].pc = "login_error" =>
                sanitize_family_code(Strip(req[p].form)) = <<>>

\* C18 witness: two logins with one code both found no row, both ran
\* register_family, and both are logged in
C18_Witness ==
    /\ \A p \in Procs : req[p].pc = "logged_in" /\ req[p].exists = 0
    /\ req[1].family_code = req[2].family_code
    /\ req[1].registered # req[2].registered

(***************************************************************************)
(* Properties of the consumed list                                         *)
(***************************************************************************)
\* C19: in the consumed list of an Allocate no id appears twice; every
\* entry is of a row that, when the handler read the table, was of the
\* calling family, unused and of amount > 0, and consumes more than 0 and
\* no more than the row's amount; and after every entry the amount still
\* needed is not negative.
C19_ConsumedListWellFormed ==
    [][(last'.op = "use_amount" /\ last'.status = 200) =>
        LET used == last'.body.used_urls
            needed == last'.data.amount
        IN
        /\ \A i, j \in DOMAIN used : used[i].id = used[j].id => i = j
        /\ \A k \in DOMAIN used :
              \E r \in Rows(urls) :
                  /\ r.id = used[k].id
                  /\ r.family_id = last'.family_id
                  /\ r.used = FALSE
                  /\ r.amount > 0
                  /\ used[k].amount > 0
                  /\ used[k].amount <= r.amount
        /\ \A k \in 0..Len(used) : needed - SumConsumed(SubSeq(used, 1, k)) >= 0
      ]_vars

\* C19 witness: an Allocate consumed from a row of its family while the
\* family holds an unused row of amount <= 0, which the list leaves out
C19_Witness ==
    /\ Allocated
    /\ Len(last.body.used_urls) = 1
    /\ last.body.used_urls[1].amount > 0
    /\ \E r \in Rows(urls) :
          /\ r.family_id = last.family_id
          /\ ~r.used
          /\ r.amount <= 0
          /\ r.id # last.body.used_urls[1].id

====
